---- MODULE Spec2Model ----
(***************************************************************************)
(* Host-side client of the Arduino command protocol (Arduino/arduino.py).  *)
(* A call of the API is one action; the serial stream `sr` is the          *)
(* environment: every write may fail and every readline returns one of the *)
(* raw lines of RawLines.  A frame is the pair (command, arguments) that   *)
(* build_cmd_str joins into "@cmd%a0%a1$!".                                *)
(***************************************************************************)
EXTENDS Integers, Sequences, FiniteSets, TLC

VARIABLES
    pinModeDic,   \* Arduino.pinModeDic: a dict, pin -> direction
    servo_pos,    \* Servos.servo_pos: a dict, pin -> position handle
    connected,    \* SoftwareSerial.connected
    lastMode,     \* history: direction given to the most recent accepted pinMode per pin
    wasConnected, \* history: a begin of this session has been acknowledged
    stream,       \* the serial line seen from both ends: requests the board holds, lines
                  \* waiting in the host's input buffer, the call that is blocked in rd
    pc,           \* "idle"; "attach" inside the while-loop of Servos.attach; "svr" in
                  \* Servos.read after the attach it started has returned
    loopPin,      \* the pin Servos.attach is working on
    last,         \* what the most recent call did (frames written, reads, result)
    cstate,       \* connection: "new", "probing", "ready", "failed"
    cmode,        \* "none", "explicit", "auto", "given"
    idx,          \* find_port: index of the candidate under test
    isOpen,       \* set of candidate ports whose stream is open
    opened,       \* history: candidates opened, in order
    versions,     \* history: version obtained from each probed candidate
    warned,       \* history: candidates for which the update notice was printed
    sessionPort,  \* the port the session's stream belongs to (0 = none)
    ports,        \* find_port: the candidate list, in the order it is walked
    notices       \* history: ports whose rejection find_port logged at debug level

pvars == <<pinModeDic, servo_pos, connected, lastMode, wasConnected, stream, pc, loopPin>>
cvars == <<cstate, cmode, idx, isOpen, opened, versions, warned, sessionPort, ports, notices>>
vars == <<pinModeDic, servo_pos, connected, lastMode, wasConnected, stream, pc, loopPin, last,
          cstate, cmode, idx, isOpen, opened, versions, warned, sessionPort, ports, notices>>

-----------------------------------------------------------------------------
(* Bounds *)
MaxPin == 1
MaxTries == 2
NumPorts == 2

Pins == 0..MaxPin
Ports == 1..NumPorts

\* Python dicts: d[k] = v and del d[k]
SetKey(d, k, v) == [x \in DOMAIN d \cup {k} |-> IF x = k THEN v ELSE d[x]]
DelKey(d, k) == [x \in DOMAIN d \ {k} |-> d[x]]
EmptyDict == [x \in {} |-> 0]

-----------------------------------------------------------------------------
(* Text: a string is a sequence of one-character strings. *)

Digit == <<"0", "1", "2", "3", "4", "5", "6", "7", "8", "9">>
IsDigit(c) == \E i \in 1..10 : Digit[i] = c
DigitVal(c) == (CHOOSE i \in 1..10 : Digit[i] = c) - 1
IsSpace(c) == c \in {" ", "\n", "\r", "\t"}

\* str.upper() on the argument literals the callers pass
Upper(s) ==
    CASE s = "high" -> "HIGH"
      [] s = "low" -> "LOW"
      [] s = "input" -> "INPUT"
      [] s = "output" -> "OUTPUT"
      [] s = "input_pullup" -> "INPUT_PULLUP"
      [] s = "toggle" -> "TOGGLE"
      [] s = "lsbfirst" -> "LSBFIRST"
      [] OTHER -> s

\* bytes.decode("utf-8"): the byte "BAD" is not valid UTF-8
Decodable(raw) == \A i \in 1..Len(raw) : raw[i] # "BAD"

RECURSIVE StripCRLF(_)
\* str.replace("\r\n", ""): every occurrence of CR LF is removed
StripCRLF(s) ==
    IF Len(s) = 0 THEN <<>>
    ELSE IF Len(s) >= 2 /\ s[1] = "\r" /\ s[2] = "\n" THEN StripCRLF(SubSeq(s, 3, Len(s)))
    ELSE <<s[1]>> \o StripCRLF(Tail(s))

RECURSIVE LStrip(_)
LStrip(s) == IF Len(s) > 0 /\ IsSpace(s[1]) THEN LStrip(Tail(s)) ELSE s
RECURSIVE RStrip(_)
RStrip(s) == IF Len(s) > 0 /\ IsSpace(s[Len(s)]) THEN RStrip(SubSeq(s, 1, Len(s) - 1)) ELSE s
Strip(s) == RStrip(LStrip(s))

AllDigits(s) == \A i \in 1..Len(s) : IsDigit(s[i])
RECURSIVE DigitsVal(_)
DigitsVal(s) == IF Len(s) = 0 THEN 0 ELSE 10 * DigitsVal(SubSeq(s, 1, Len(s) - 1)) + DigitVal(s[Len(s)])

HasSign(s) == Len(s) > 0 /\ s[1] \in {"+", "-"}
Unsigned(s) == IF HasSign(s) THEN Tail(s) ELSE s
SignOf(s) == IF Len(s) > 0 /\ s[1] = "-" THEN -1 ELSE 1

\* int(str): surrounding whitespace, an optional sign, decimal digits
IsInt(s) == LET u == Unsigned(Strip(s)) IN Len(u) > 0 /\ AllDigits(u)
IntVal(s) == SignOf(Strip(s)) * DigitsVal(Unsigned(Strip(s)))

\* float(str) on the alphabet used here: digits with at most one point
DotAt(u) == IF \E i \in 1..Len(u) : u[i] = "." THEN CHOOSE i \in 1..Len(u) : u[i] = "." ELSE 0
NoDot(u) == IF DotAt(u) = 0 THEN u ELSE SubSeq(u, 1, DotAt(u) - 1) \o SubSeq(u, DotAt(u) + 1, Len(u))
IsFloat(s) == LET u == Unsigned(Strip(s)) IN Len(NoDot(u)) > 0 /\ AllDigits(NoDot(u))
\* the value is mant / 10^exp
FloatMant(s) == SignOf(Strip(s)) * DigitsVal(NoDot(Unsigned(Strip(s))))
FloatExp(s) == LET u == Unsigned(Strip(s)) IN IF DotAt(u) = 0 THEN 0 ELSE Len(u) - DotAt(u)

\* str.isdigit()
IsDigitStr(s) == Len(s) > 0 /\ AllDigits(s)

\* rd(sr): a decoding error raises, otherwise the line without CR LF
RdRaises(raw) == ~Decodable(raw)
rd(raw) == StripCRLF(raw)

\* the lines the stream may return; <<>> is a read that timed out
RawLines == {
    <<>>,
    <<"4", "2", "\r", "\n">>,
    <<"7", "\n">>,
    <<"2", ".", "5", "\r", "\n">>,
    <<"a", "b", "\r", "\n">>,
    <<"s", "s", " ", "O", "K", "\r", "\n">>,
    <<"s", "s", " ", "O", "K", "\n">>,
    <<"BAD">> }

ssOK == <<"s", "s", " ", "O", "K">>

-----------------------------------------------------------------------------
(* Values returned by a call: t is the Python type, v (and e) the number, s the text *)
RNone == [t |-> "None", v |-> 0, e |-> 0, s |-> <<>>]
RInt(n) == [t |-> "int", v |-> n, e |-> 0, s |-> <<>>]
RFloat(m, x) == [t |-> "float", v |-> m, e |-> x, s |-> <<>>]
RBool(b) == [t |-> "bool", v |-> IF b THEN 1 ELSE 0, e |-> 0, s |-> <<>>]
RStr(str) == [t |-> "str", v |-> 0, e |-> 0, s |-> str]

\* build_cmd_str(cmd, args)
build_cmd_str(cmd, args) == [cmd |-> cmd, args |-> args]

\* the record of one call: its arguments (val the literal, num the number), the
\* exception it raised, its return value, the frames it handed to sr.write in
\* order, how many of them the stream accepted, and how many lines it read
Call(op, pin, val, num, raised, ret, frames, delivered, reads) ==
    [op |-> op, pin |-> pin, val |-> val, num |-> num, raised |-> raised, ret |-> ret,
     frames |-> frames, delivered |-> delivered, reads |-> reads, resp |-> <<>>, more |-> 0]

\* a call with a fourth argument (the value of shiftOut and of EEPROM.write)
WithMore(call, value) == [call EXCEPT !.more = value]

\* resp is the raw line the call's last readline returned, if it read
WithResp(call, raw) == [call EXCEPT !.resp = IF call.reads > 0 THEN raw ELSE <<>>]

\* the serial line with nothing in flight.  sent: the requests the board has
\* received and not answered yet, inbuf: the lines waiting in the host's input
\* buffer (each request and each line is named by the number of the call it
\* belongs to), cur: the call blocked in rd, n: calls made so far, id and got:
\* the number of the call that returned last and of the line it consumed (0: none)
NoCur == [op |-> "none", pin |-> 0, wok |-> FALSE]
QuietStream == [sent |-> <<>>, inbuf |-> <<>>, cur |-> NoCur, n |-> 0, id |-> 0, got |-> 0]

NoCall == Call("none", 0, "", 0, "none", RNone, <<>>, 0, 0)

\* write_and_flush(sr, data, raise_error): does the failure of the write propagate
WriteRaises(wok, raise_error) == ~wok /\ raise_error
Delivered(wok) == IF wok THEN 1 ELSE 0

-----------------------------------------------------------------------------
(* Arduino: pin operations *)

DirArgs == {"INPUT", "OUTPUT", "INPUT_PULLUP", "input", "output", "toggle"}
LevelArgs == {"HIGH", "LOW", "low", "toggle"}
AnalogVals == {-5, 0, 128, 255, 256, 300}

validDirs == {"INPUT", "OUTPUT", "INPUT_PULLUP"}
\* variant: one more literal is taken as a level
validLevels_WithToggle == {"HIGH", "LOW", "TOGGLE"}

validLevels == {"HIGH", "LOW"}

\* self.pinModeDic[pin] on a pin that has no entry raises KeyError
HasMode(pin) == pin \in DOMAIN pinModeDic

\* variant: the pull-up offset is added to the pin instead of the negated pin
PinModeArg_PlusPin(pin, v) ==
    IF v = "INPUT" THEN -pin
    ELSE IF v = "INPUT_PULLUP" THEN -16384 + pin
    ELSE pin

\* the argument of a 'pm' frame
PinModeArg(pin, v) ==
    IF v = "INPUT" THEN -pin
    ELSE IF v = "INPUT_PULLUP" THEN -16384 - pin
    ELSE pin

\* self.pinModeDic[pin] = val
RecordMode(dic, pin, v) == SetKey(dic, pin, v)

\* the argument of a 'dw' or 'pi' frame
LevelArg(pin, v) == IF v = "LOW" THEN -pin ELSE pin

\* variant: only the upper end is clamped
ClampByte_UpperOnly(val) == IF val > 255 THEN 255 ELSE val

\* the value analogWrite, shiftOut and EEPROM.write put in the frame
ClampByte(val) == IF val > 255 THEN 255 ELSE IF val < 0 THEN 0 ELSE val

\* variant: the test only turns away pins set to INPUT
NotOutput_OnlyInput(pin) == pinModeDic[pin] = "INPUT"
\* variant: the test only turns away pins set to OUTPUT
NotInput_OnlyOutput(pin) == pinModeDic[pin] = "OUTPUT"

\* not self.pinModeDic[pin] == 'OUTPUT'
NotOutput(pin) == ~(pinModeDic[pin] = "OUTPUT")
\* variant: a pin set to INPUT_PULLUP passes the test too
NotInput_AcceptsPullup(pin) == pinModeDic[pin] \notin {"INPUT", "INPUT_PULLUP"}

\* not self.pinModeDic[pin] == 'INPUT'
NotInput(pin) == ~(pinModeDic[pin] = "INPUT")

Ready == cstate = "ready" /\ pc = "idle"

pinMode(pin, val, wok) ==
    /\ Ready
    /\ LET v == Upper(val) IN
       IF v \in validDirs
       THEN /\ pinModeDic' = RecordMode(pinModeDic, pin, v)
            /\ lastMode' = [lastMode EXCEPT ![pin] = v]
            /\ last' = Call("pinMode", pin, val, 0, "none", RNone,
                            <<build_cmd_str("pm", <<PinModeArg(pin, v)>>)>>, Delivered(wok), 0)
       ELSE /\ last' = Call("pinMode", pin, val, 0, "ValueError", RNone, <<>>, 0, 0)
            /\ UNCHANGED <<pinModeDic, lastMode>>
    /\ UNCHANGED <<servo_pos, connected, wasConnected, stream, pc, loopPin>>
    /\ UNCHANGED cvars

digitalWrite(pin, val, wok) ==
    /\ Ready
    /\ LET v == Upper(val) IN
       last' = IF ~HasMode(pin)
                 THEN Call("digitalWrite", pin, val, 0, "KeyError", RNone, <<>>, 0, 0)
               ELSE IF NotOutput(pin)
                 THEN Call("digitalWrite", pin, val, 0, "ValueError", RNone, <<>>, 0, 0)
               ELSE IF v \in validLevels
                 THEN Call("digitalWrite", pin, val, 0, "none", RNone,
                           <<build_cmd_str("dw", <<LevelArg(pin, v)>>)>>, Delivered(wok), 0)
               ELSE Call("digitalWrite", pin, val, 0, "ValueError", RNone, <<>>, 0, 0)
    /\ UNCHANGED pvars
    /\ UNCHANGED cvars

analogWrite(pin, val, wok) ==
    /\ Ready
    /\ last' = IF ~HasMode(pin)
                 THEN Call("analogWrite", pin, "", val, "KeyError", RNone, <<>>, 0, 0)
               ELSE IF NotOutput(pin)
                 THEN Call("analogWrite", pin, "", val, "ValueError", RNone, <<>>, 0, 0)
               ELSE Call("analogWrite", pin, "", val, "none", RNone,
                         <<build_cmd_str("aw", <<pin, ClampByte(val)>>)>>, Delivered(wok), 0)
    /\ UNCHANGED pvars
    /\ UNCHANGED cvars

\* try: return int(rd(self.sr))  except: return 0
IntOrZero(raw) == IF ~RdRaises(raw) /\ IsInt(rd(raw)) THEN RInt(IntVal(rd(raw))) ELSE RInt(0)
\* variant: the fallback of the integer reads is used
FloatOrMinusOne_Zero(raw) ==
    IF ~RdRaises(raw) /\ IsFloat(rd(raw)) THEN RFloat(FloatMant(rd(raw)), FloatExp(rd(raw)))
    ELSE RInt(0)

\* try: return float(rd(self.sr))  except: return -1
FloatOrMinusOne(raw) ==
    IF ~RdRaises(raw) /\ IsFloat(rd(raw)) THEN RFloat(FloatMant(rd(raw)), FloatExp(rd(raw)))
    ELSE RInt(-1)

analogReadCall(pin, wok, raw) ==
    Call("analogRead", pin, "", 0, "none", IntOrZero(raw),
        <<build_cmd_str("ar", <<pin>>)>>, Delivered(wok), 1)

analogRead(pin, wok, raw) ==
    /\ Ready
    /\ last' = WithResp(analogReadCall(pin, wok, raw), raw)
    /\ UNCHANGED pvars
    /\ UNCHANGED cvars

digitalReadCall(pin, wok, raw) ==
    IF ~HasMode(pin)
        THEN Call("digitalRead", pin, "", 0, "KeyError", RNone, <<>>, 0, 0)
    ELSE IF NotInput(pin)
        THEN Call("digitalRead", pin, "", 0, "ValueError", RNone, <<>>, 0, 0)
    ELSE Call("digitalRead", pin, "", 0, "none", IntOrZero(raw),
        <<build_cmd_str("dr", <<pin>>)>>, Delivered(wok), 1)

digitalRead(pin, wok, raw) ==
    /\ Ready
    /\ last' = WithResp(digitalReadCall(pin, wok, raw), raw)
    /\ UNCHANGED pvars
    /\ UNCHANGED cvars

pulseInCall(pin, val, wok, raw) ==
    LET v == Upper(val) IN
    IF ~HasMode(pin)
        THEN Call("pulseIn", pin, val, 0, "KeyError", RNone, <<>>, 0, 0)
    ELSE IF NotInput(pin)
        THEN Call("pulseIn", pin, val, 0, "ValueError", RNone, <<>>, 0, 0)
    ELSE IF ~(v \in validLevels)
        THEN Call("pulseIn", pin, val, 0, "ValueError", RNone, <<>>, 0, 0)
    ELSE Call("pulseIn", pin, val, 0, "none", FloatOrMinusOne(raw),
        <<build_cmd_str("pi", <<LevelArg(pin, v)>>)>>, Delivered(wok), 1)

pulseIn(pin, val, wok, raw) ==
    /\ Ready
    /\ last' = WithResp(pulseInCall(pin, val, wok, raw), raw)
    /\ UNCHANGED pvars
    /\ UNCHANGED cvars

\* numtrials = int(numtrials): the parameter is numTrials, so the name is unbound
\* and the call raises NameError before it looks at the pin
pulseIn_set(pin, val) ==
    /\ Ready
    /\ last' = Call("pulseIn_set", pin, val, 0, "NameError", RNone, <<>>, 0, 0)
    /\ UNCHANGED pvars
    /\ UNCHANGED cvars

-----------------------------------------------------------------------------
(* Servos *)

Angles == {0, 90}

Attached(pin) == pin \in DOMAIN servo_pos

\* the frames and reads of a loop are counted up to MaxTries
AppendCapped(seq, x) == IF Len(seq) < MaxTries THEN Append(seq, x) ELSE seq
IncCapped(n) == IF n < MaxTries THEN n + 1 ELSE n

\* self.servo_pos[pin] = position
Bind(d, pin, position) == SetKey(d, pin, position)
\* del self.servo_pos[pin]
Unbind(d, pin) == DelKey(d, pin)

svaFrame(pin) == build_cmd_str("sva", <<pin, 544, 2400>>)

\* Servos.attach up to the while-loop
attach(pin) ==
    /\ Ready
    /\ pc' = "attach"
    /\ loopPin' = pin
    /\ last' = Call("attach", pin, "", 0, "none", RNone, <<>>, 0, 0)
    /\ UNCHANGED <<pinModeDic, servo_pos, connected, lastMode, wasConnected, stream>>
    /\ UNCHANGED cvars

\* variant: an empty answer ends the loop, and int('') raises
attachPass_GivesUp(wok, raw) ==
    /\ cstate = "ready"
    /\ pc = "attach"
    /\ LET sent == [last EXCEPT !.frames = AppendCapped(@, svaFrame(loopPin)),
                                !.delivered = IF wok THEN IncCapped(@) ELSE @]
           got == [sent EXCEPT !.reads = IncCapped(@), !.resp = raw]
       IN
       IF WriteRaises(wok, TRUE)
       THEN /\ last' = [sent EXCEPT !.raised = "TransportError"]
            /\ pc' = "idle"
            /\ UNCHANGED servo_pos
       ELSE IF RdRaises(raw)
       THEN /\ last' = [got EXCEPT !.raised = "UnicodeDecodeError"]
            /\ pc' = "idle"
            /\ UNCHANGED servo_pos
       ELSE IF ~IsInt(rd(raw))
       THEN /\ last' = [got EXCEPT !.raised = "ValueError"]
            /\ pc' = "idle"
            /\ UNCHANGED servo_pos
       ELSE /\ servo_pos' = Bind(servo_pos, loopPin, IntVal(rd(raw)))
            /\ IF last.op = "attach"
               THEN /\ last' = [got EXCEPT !.ret = RInt(1)]
                    /\ pc' = "idle"
               ELSE /\ last' = got
                    /\ pc' = "svr"
    /\ UNCHANGED <<pinModeDic, connected, lastMode, wasConnected, stream, loopPin>>
    /\ UNCHANGED cvars

\* one pass of the while-loop of Servos.attach, and what follows the loop
attachPass(wok, raw) ==
    /\ cstate = "ready"
    /\ pc = "attach"
    /\ LET sent == [last EXCEPT !.frames = AppendCapped(@, svaFrame(loopPin)),
                                !.delivered = IF wok THEN IncCapped(@) ELSE @]
           got == [sent EXCEPT !.reads = IncCapped(@), !.resp = raw]
       IN
       IF WriteRaises(wok, TRUE)
       THEN /\ last' = [sent EXCEPT !.raised = "TransportError"]
            /\ pc' = "idle"
            /\ UNCHANGED servo_pos
       ELSE IF RdRaises(raw)
       THEN /\ last' = [got EXCEPT !.raised = "UnicodeDecodeError"]
            /\ pc' = "idle"
            /\ UNCHANGED servo_pos
       ELSE IF Len(rd(raw)) = 0
       THEN /\ last' = got
            /\ pc' = "attach"
            /\ UNCHANGED servo_pos
       ELSE IF ~IsInt(rd(raw))
       THEN /\ last' = [got EXCEPT !.raised = "ValueError"]
            /\ pc' = "idle"
            /\ UNCHANGED servo_pos
       ELSE /\ servo_pos' = Bind(servo_pos, loopPin, IntVal(rd(raw)))
            /\ IF last.op = "attach"
               THEN /\ last' = [got EXCEPT !.ret = RInt(1)]
                    /\ pc' = "idle"
               ELSE /\ last' = got
                    /\ pc' = "svr"
    /\ UNCHANGED <<pinModeDic, connected, lastMode, wasConnected, stream, loopPin>>
    /\ UNCHANGED cvars

detach(pin, wok) ==
    /\ Ready
    /\ IF ~Attached(pin)
       THEN /\ last' = Call("detach", pin, "", 0, "KeyError", RNone, <<>>, 0, 0)
            /\ UNCHANGED servo_pos
       ELSE /\ last' = Call("detach", pin, "", 0, "none", RNone,
                            <<build_cmd_str("svd", <<servo_pos[pin]>>)>>, Delivered(wok), 0)
            /\ servo_pos' = Unbind(servo_pos, pin)
    /\ UNCHANGED <<pinModeDic, connected, lastMode, wasConnected, stream, pc, loopPin>>
    /\ UNCHANGED cvars

\* write_and_flush(sr, data, raise_error=False) has no parameter raise_errors:
\* calling it with raise_errors=True raises TypeError before its body runs
KeywordAccepted(kw) == kw = "raise_error"

\* Servos.write and Servos.writeMicroseconds
servoWriteCall(op, cmd, kw, pin, arg, wok) ==
    IF ~Attached(pin)
      THEN Call(op, pin, "", arg, "KeyError", RNone, <<>>, 0, 0)
    ELSE IF ~KeywordAccepted(kw)
      THEN Call(op, pin, "", arg, "TypeError", RNone, <<>>, 0, 0)
    ELSE IF WriteRaises(wok, TRUE)
      THEN Call(op, pin, "", arg, "TransportError", RNone,
                <<build_cmd_str(cmd, <<servo_pos[pin], arg>>)>>, 0, 0)
    ELSE Call(op, pin, "", arg, "none", RNone,
              <<build_cmd_str(cmd, <<servo_pos[pin], arg>>)>>, 1, 0)

servoWrite(pin, angle, wok) ==
    /\ Ready
    /\ last' = servoWriteCall("Servos.write", "svw", "raise_errors", pin, angle, wok)
    /\ UNCHANGED pvars
    /\ UNCHANGED cvars

writeMicroseconds(pin, uS, wok) ==
    /\ Ready
    /\ last' = servoWriteCall("writeMicroseconds", "svwm", "raise_errors", pin, uS, wok)
    /\ UNCHANGED pvars
    /\ UNCHANGED cvars

\* try: return int(rd(self.sr))  except: return None
IntOrNone(raw) == IF ~RdRaises(raw) /\ IsInt(rd(raw)) THEN RInt(IntVal(rd(raw))) ELSE RNone

\* variant: Servos.read looks the pin up without attaching it first
servoRead_NoAttach(pin, wok, raw) ==
    /\ Ready
    /\ IF Attached(pin)
       THEN last' = WithResp(Call("Servos.read", pin, "", 0, "none", IntOrNone(raw),
                                  <<build_cmd_str("svr", <<servo_pos[pin]>>)>>,
                                  Delivered(wok), 1), raw)
       ELSE last' = Call("Servos.read", pin, "", 0, "KeyError", RNone, <<>>, 0, 0)
    /\ UNCHANGED pvars
    /\ UNCHANGED cvars

\* Servos.read on an attached pin, or its start on a pin that is not attached
servoRead(pin, wok, raw) ==
    /\ Ready
    /\ IF Attached(pin)
       THEN /\ last' = WithResp(Call("Servos.read", pin, "", 0, "none", IntOrNone(raw),
                                     <<build_cmd_str("svr", <<servo_pos[pin]>>)>>,
                                     Delivered(wok), 1), raw)
            /\ UNCHANGED <<pc, loopPin>>
       ELSE /\ last' = Call("Servos.read", pin, "", 0, "none", RNone, <<>>, 0, 0)
            /\ pc' = "attach"
            /\ loopPin' = pin
    /\ UNCHANGED <<pinModeDic, servo_pos, connected, lastMode, wasConnected, stream>>
    /\ UNCHANGED cvars

\* Servos.read after the attach it called has returned
servoReadRest(wok, raw) ==
    /\ cstate = "ready"
    /\ pc = "svr"
    /\ last' = [last EXCEPT !.frames = Append(@, build_cmd_str("svr", <<servo_pos[loopPin]>>)),
                            !.delivered = @ + Delivered(wok),
                            !.reads = @ + 1,
                            !.resp = raw,
                            !.ret = IntOrNone(raw)]
    /\ pc' = "idle"
    /\ UNCHANGED <<pinModeDic, servo_pos, connected, lastMode, wasConnected, stream, loopPin>>
    /\ UNCHANGED cvars

-----------------------------------------------------------------------------
(* SoftwareSerial *)

Bauds == {9600}
DataBytes == {65}

\* variant: a response that starts with the acknowledgement is taken for it
IsAck_StartsWith(response) == Len(response) >= Len(ssOK) /\ SubSeq(response, 1, Len(ssOK)) = ssOK

IsAck_NonEmpty(response) == Len(response) > 0

\* response == "ss OK"
IsAck(response) == response = ssOK

begin(p1, p2, baud, wok, raw) ==
    /\ Ready
    /\ LET f == <<build_cmd_str("ss", <<p1, p2, baud>>)>>
           call(raised, ret) == WithResp(Call("begin", p1, "", baud, raised, ret,
                                              f, Delivered(wok), 1), raw)
       IN
       IF RdRaises(raw)
       THEN /\ last' = call("UnicodeDecodeError", RNone)
            /\ UNCHANGED <<connected, wasConnected>>
       ELSE IF IsAck(rd(raw))
       THEN /\ connected' = TRUE
            /\ wasConnected' = TRUE
            /\ last' = call("none", RBool(TRUE))
       ELSE /\ connected' = FALSE
            /\ last' = call("none", RBool(FALSE))
            /\ UNCHANGED wasConnected
    /\ UNCHANGED <<pinModeDic, servo_pos, lastMode, stream, pc, loopPin>>
    /\ UNCHANGED cvars

ssWriteCall(data, wok, raw) ==
    LET f == <<build_cmd_str("sw", <<data>>)>> IN
    IF ~connected
        THEN Call("SoftwareSerial.write", 0, "", data, "none", RBool(FALSE), <<>>, 0, 0)
    ELSE IF RdRaises(raw)
        THEN Call("SoftwareSerial.write", 0, "", data, "UnicodeDecodeError", RNone,
        f, Delivered(wok), 1)
    ELSE IF IsAck(rd(raw))
        THEN Call("SoftwareSerial.write", 0, "", data, "none", RBool(TRUE),
        f, Delivered(wok), 1)
    ELSE Call("SoftwareSerial.write", 0, "", data, "none", RNone, f, Delivered(wok), 1)

ssWrite(data, wok, raw) ==
    /\ Ready
    /\ last' = WithResp(ssWriteCall(data, wok, raw), raw)
    /\ UNCHANGED pvars
    /\ UNCHANGED cvars

ssReadCall(wok, raw) ==
    LET f == <<build_cmd_str("sr", <<>>)>> IN
    IF ~connected
        THEN Call("SoftwareSerial.read", 0, "", 0, "none", RBool(FALSE), <<>>, 0, 0)
    ELSE IF WriteRaises(wok, TRUE)
        THEN Call("SoftwareSerial.read", 0, "", 0, "TransportError", RNone, f, 0, 0)
    ELSE IF RdRaises(raw)
        THEN Call("SoftwareSerial.read", 0, "", 0, "UnicodeDecodeError", RNone, f, 1, 1)
    ELSE IF Len(rd(raw)) > 0
        THEN Call("SoftwareSerial.read", 0, "", 0, "none", RStr(rd(raw)), f, 1, 1)
    ELSE Call("SoftwareSerial.read", 0, "", 0, "none", RNone, f, 1, 1)

ssRead(wok, raw) ==
    /\ Ready
    /\ last' = WithResp(ssReadCall(wok, raw), raw)
    /\ UNCHANGED pvars
    /\ UNCHANGED cvars

-----------------------------------------------------------------------------
(* Connecting: find_port, get_version, Arduino.__init__ *)

libraryVersion == <<"V", "0", ".", "6">>

\* the lines a device may answer the version query with
VersionLines == {
    <<>>,
    <<"V", "0", ".", "6", "\r", "\n">>,
    <<"V", "0", ".", "5", "\r", "\n">>,
    <<"V", "0", ".", "6", "\n">>,
    <<"v", "e", "r", "s", "i", "o", "n", "\r", "\n">>,
    <<"a", "b", "\r", "\n">>,
    <<"BAD">> }

Platforms == {"Windows", "Darwin", "Linux"}

RECURSIVE Reverse(_)
Reverse(s) == IF Len(s) = 0 THEN <<>> ELSE Append(Reverse(Tail(s)), s[1])

\* the ports as the platform lists them
Enumerated == [i \in 1..NumPorts |-> i]
\* ports = ports[::-1] on Darwin
Candidates(platform) == IF platform = "Darwin" THEN Reverse(Enumerated) ELSE Enumerated

\* get_version(sr): None when the write fails, otherwise the line read
VNone == [none |-> TRUE, s |-> <<>>]
VStr(str) == [none |-> FALSE, s |-> str]
get_version(wok, raw) == IF ~wok THEN VNone ELSE VStr(StripCRLF(raw))
get_versionRaises(wok, raw) == wok /\ ~Decodable(raw)

\* variant: the line is compared before it is decoded, and bytes never equal a str
Mismatch_BytesVsStr(version) == TRUE

\* version != libraryVersion
Mismatch(version) == version.none \/ version.s # libraryVersion

\* try: ver = version[0]  except Exception: ver = ''
FirstChar(version) == IF version.none \/ Len(version.s) = 0 THEN "" ELSE version.s[1]

\* variant: the test for the literal answer "version" is missing
OldSketch_OnlyV(version) == FirstChar(version) = "V"

\* ver == 'V' or version == "version"
OldSketch(version) ==
    \/ FirstChar(version) = "V"
    \/ (~version.none /\ version.s = <<"v", "e", "r", "s", "i", "o", "n">>)

\* the fields Arduino.__init__ sets after the stream is there (lines 176-180)
NewSession ==
    /\ pinModeDic' = EmptyDict
    /\ servo_pos' = EmptyDict
    /\ connected' = FALSE
    /\ lastMode' = [q \in Pins |-> "unset"]
    /\ wasConnected' = FALSE
    /\ stream' = QuietStream
    /\ pc' = "idle"
    /\ loopPin' = 0

NoSession == UNCHANGED pvars

\* Arduino(sr=sr): the caller hands in an open stream
connectGiven(port, flushOk) ==
    /\ cstate = "new"
    /\ cmode' = "given"
    /\ isOpen' = isOpen \cup {port}
    /\ opened' = Append(opened, port)
    /\ IF flushOk
       THEN /\ cstate' = "ready"
            /\ sessionPort' = port
            /\ NewSession
            /\ last' = Call("__init__", port, "", 0, "none", RNone, <<>>, 0, 0)
       ELSE /\ cstate' = "failed"
            /\ UNCHANGED sessionPort
            /\ NoSession
            /\ last' = Call("__init__", port, "", 0, "TransportError", RNone, <<>>, 0, 0)
    /\ UNCHANGED <<idx, versions, warned, ports, notices>>

\* Arduino(port=port): lines 156-180
connectExplicit(port, openOk, wok, raw, flushOk) ==
    /\ cstate = "new"
    /\ cmode' = "explicit"
    /\ LET version == get_version(wok, raw)
           f == <<build_cmd_str("version", <<>>)>>
       IN
       IF ~openOk
       THEN /\ cstate' = "failed"
            /\ last' = Call("__init__", port, "", 0, "SerialException", RNone, <<>>, 0, 0)
            /\ UNCHANGED <<isOpen, opened, versions, warned, sessionPort>>
            /\ NoSession
       ELSE /\ isOpen' = isOpen \cup {port}
            /\ opened' = Append(opened, port)
            /\ IF get_versionRaises(wok, raw)
               THEN /\ cstate' = "failed"
                    /\ last' = Call("__init__", port, "", 0, "UnicodeDecodeError", RNone, f, 1, 2)
                    /\ UNCHANGED <<versions, warned, sessionPort>>
                    /\ NoSession
               ELSE /\ versions' = SetKey(versions, port, version)
                    /\ warned' = IF Mismatch(version) /\ OldSketch(version)
                                 THEN warned \cup {port} ELSE warned
                    /\ IF flushOk
                       THEN /\ cstate' = "ready"
                            /\ sessionPort' = port
                            /\ NewSession
                            /\ last' = Call("__init__", port, "", 0, "none", RNone,
                                            f, Delivered(wok), IF wok THEN 2 ELSE 1)
                       ELSE /\ cstate' = "failed"
                            /\ UNCHANGED sessionPort
                            /\ NoSession
                            /\ last' = Call("__init__", port, "", 0, "TransportError", RNone,
                                            f, Delivered(wok), IF wok THEN 2 ELSE 1)
    /\ UNCHANGED <<idx, ports, notices>>

\* Arduino(): find_port is entered and the candidate list is built (lines 87-95)
findStart(platform, enumOk) ==
    /\ cstate = "new"
    /\ cmode' = "auto"
    /\ IF platform = "Windows" /\ ~enumOk
       THEN /\ cstate' = "failed"
            /\ last' = Call("__init__", 0, "", 0, "Exception", RNone, <<>>, 0, 0)
            /\ UNCHANGED <<ports, idx>>
       ELSE /\ cstate' = "probing"
            /\ ports' = Candidates(platform)
            /\ idx' = 1
            /\ last' = Call("__init__", 0, "", 0, "none", RNone, <<>>, 0, 0)
    /\ UNCHANGED <<isOpen, opened, versions, warned, sessionPort, notices>>
    /\ NoSession

Probing == cstate = "probing" /\ idx <= Len(ports)

\* serial.Serial(port, ...) raises: continue with the next candidate (lines 98-102)
findOpenFails ==
    /\ Probing
    /\ ports[idx] \notin isOpen
    /\ idx' = idx + 1
    /\ UNCHANGED <<cstate, cmode, isOpen, opened, versions, warned, sessionPort, ports, notices>>
    /\ UNCHANGED last
    /\ NoSession

\* serial.Serial(port, ...) returns the open stream (line 99)
findOpen ==
    /\ Probing
    /\ ports[idx] \notin isOpen
    /\ isOpen' = isOpen \cup {ports[idx]}
    /\ opened' = Append(opened, ports[idx])
    /\ UNCHANGED <<cstate, cmode, idx, versions, warned, sessionPort, ports, notices>>
    /\ UNCHANGED last
    /\ NoSession

\* variant: only a sketch of exactly the library's version is taken
Accepted_ExactOnly(version) == ~version.none /\ version.s = libraryVersion

\* does find_port return the stream of a port that answered `version`
Accepted(version) == ~Mismatch(version) \/ OldSketch(version)

\* lines 104-129 on the open candidate, and lines 175-180 when find_port returns it
findProbe(wok, raw, flushOk) ==
    /\ Probing
    /\ ports[idx] \in isOpen
    /\ LET port == ports[idx]
           version == get_version(wok, raw)
           f == <<build_cmd_str("version", <<>>)>>
       IN
       IF get_versionRaises(wok, raw)
       THEN /\ cstate' = "failed"
            /\ last' = Call("__init__", port, "", 0, "UnicodeDecodeError", RNone, f, 1, 2)
            /\ UNCHANGED <<idx, isOpen, versions, warned, sessionPort, notices>>
            /\ NoSession
       ELSE /\ versions' = SetKey(versions, port, version)
            /\ IF Accepted(version)
               THEN /\ warned' = IF Mismatch(version) THEN warned \cup {port} ELSE warned
                    /\ UNCHANGED <<idx, isOpen, notices>>
                    /\ IF flushOk
                       THEN /\ cstate' = "ready"
                            /\ sessionPort' = port
                            /\ NewSession
                            /\ last' = Call("__init__", port, "", 0, "none", RNone,
                                            f, Delivered(wok), IF wok THEN 2 ELSE 1)
                       ELSE /\ cstate' = "failed"
                            /\ UNCHANGED sessionPort
                            /\ NoSession
                            /\ last' = Call("__init__", port, "", 0, "TransportError", RNone,
                                            f, Delivered(wok), IF wok THEN 2 ELSE 1)
               ELSE /\ isOpen' = isOpen \ {port}
                    /\ notices' = notices \cup {port}
                    /\ idx' = idx + 1
                    /\ UNCHANGED <<cstate, warned, sessionPort>>
                    /\ last' = [last EXCEPT !.frames = AppendCapped(@, f[1])]
                    /\ NoSession
    /\ UNCHANGED <<cmode, opened, ports>>

\* find_port returns None and __init__ raises ValueError("Could not find port.")
findNone ==
    /\ cstate = "probing"
    /\ idx > Len(ports)
    /\ cstate' = "failed"
    /\ last' = [last EXCEPT !.raised = "ValueError"]
    /\ UNCHANGED <<cmode, idx, isOpen, opened, versions, warned, sessionPort, ports, notices>>
    /\ NoSession

\* Arduino.close
close ==
    /\ cstate = "ready"
    /\ pc = "idle"
    /\ sessionPort \in isOpen
    /\ isOpen' = isOpen \ {sessionPort}
    /\ last' = Call("close", sessionPort, "", 0, "none", RNone, <<>>, 0, 0)
    /\ UNCHANGED <<cstate, cmode, idx, opened, versions, warned, sessionPort, ports, notices>>
    /\ UNCHANGED pvars

-----------------------------------------------------------------------------
(* Tone, capacitive sensing and shift registers (lines 379-509) *)

Orders == {"MSBFIRST", "lsbfirst", "SIDEWAYS"}
ByteArgs == {-5, 128, 300}
validOrders == {"MSBFIRST", "LSBFIRST"}

\* NOTES (lines 400-411): the entries the tunes below use
NOTES == [n \in {"G3", "C4"} |-> IF n = "G3" THEN 196 ELSE 262]

\* the melody and durations arguments of Melody; lists: both are Python lists
Tunes ==
    { [melody |-> <<"C4", "G3">>, durations |-> <<4, 8>>, lists |-> TRUE],
      [melody |-> <<>>, durations |-> <<>>, lists |-> TRUE],
      [melody |-> <<"C4">>, durations |-> <<4, 8>>, lists |-> TRUE],
      [melody |-> <<"C4">>, durations |-> <<4>>, lists |-> FALSE] }

\* cmd_args = [length, pin] + notes + durations
toFrame(pin, tune) ==
    build_cmd_str("to", <<Len(tune.melody), pin>>
                        \o [i \in 1..Len(tune.melody) |-> NOTES[tune.melody[i]]]
                        \o tune.durations)

\* variant: Melody stops after the 'to' frame
MelodyCall_ToOnly(pin, tune, wok1, wok2) ==
    IF ~HasMode(pin)
        THEN Call("Melody", pin, "", 0, "KeyError", RNone, <<>>, 0, 0)
    ELSE IF NotOutput(pin)
        THEN Call("Melody", pin, "", 0, "ValueError", RNone, <<>>, 0, 0)
    ELSE IF ~tune.lists \/ Len(tune.melody) # Len(tune.durations)
        THEN Call("Melody", pin, "", 0, "none", RInt(-1), <<>>, 0, 0)
    ELSE Call("Melody", pin, "", Len(tune.melody), "none", RNone,
        <<toFrame(pin, tune)>>, Delivered(wok1), 0)

MelodyCall(pin, tune, wok1, wok2) ==
    IF ~HasMode(pin)
        THEN Call("Melody", pin, "", 0, "KeyError", RNone, <<>>, 0, 0)
    ELSE IF NotOutput(pin)
        THEN Call("Melody", pin, "", 0, "ValueError", RNone, <<>>, 0, 0)
    ELSE IF ~tune.lists \/ Len(tune.melody) # Len(tune.durations)
        THEN Call("Melody", pin, "", 0, "none", RInt(-1), <<>>, 0, 0)
    ELSE Call("Melody", pin, "", Len(tune.melody), "none", RNone,
        <<toFrame(pin, tune), build_cmd_str("nto", <<pin>>)>>,
        Delivered(wok1) + Delivered(wok2), 0)

Melody(pin, tune, wok1, wok2) ==
    /\ Ready
    /\ last' = MelodyCall(pin, tune, wok1, wok2)
    /\ UNCHANGED pvars
    /\ UNCHANGED cvars

\* if response.isdigit(): return int(response); otherwise the call returns None
DigitsOrNone(response) == IF IsDigitStr(response) THEN RInt(DigitsVal(response)) ELSE RNone

\* capacitivePin calls self.sr.write itself: a failing write propagates
capacitivePinCall(pin, wok, raw) ==
    LET f == <<build_cmd_str("cap", <<pin>>)>> IN
    IF ~wok
        THEN Call("capacitivePin", pin, "", 0, "TransportError", RNone, f, 0, 0)
    ELSE IF RdRaises(raw)
        THEN Call("capacitivePin", pin, "", 0, "UnicodeDecodeError", RNone, f, 1, 1)
    ELSE Call("capacitivePin", pin, "", 0, "none", DigitsOrNone(rd(raw)), f, 1, 1)

capacitivePin(pin, wok, raw) ==
    /\ Ready
    /\ last' = WithResp(capacitivePinCall(pin, wok, raw), raw)
    /\ UNCHANGED pvars
    /\ UNCHANGED cvars

\* pinOrder.upper() in valid
ValidOrder(order) == order \in validOrders

\* what the else branch of shiftOut (lines 474-479) and of shiftIn (lines 504-509)
\* raises once both pins are found to be OUTPUT: shiftIn evaluates valid.upper()
\* on a tuple
BadOrderError(op) == IF op = "shiftIn" THEN "AttributeError" ELSE "ValueError"

\* the condition of line 465 / 496 and the else branch, up to the frame
ShiftRejected(op, dataPin, clockPin, order) ==
    IF ~HasMode(dataPin) THEN "KeyError"
    ELSE IF NotOutput(dataPin) THEN "ValueError"
    ELSE IF ~HasMode(clockPin) THEN "KeyError"
    ELSE IF NotOutput(clockPin) THEN "ValueError"
    ELSE IF ~ValidOrder(order) THEN BadOrderError(op)
    ELSE "none"

shiftOutCall(dataPin, clockPin, pinOrder, value, wok) ==
    LET o == Upper(pinOrder)
        e == ShiftRejected("shiftOut", dataPin, clockPin, o)
        f == <<build_cmd_str("so", <<dataPin, clockPin, o, ClampByte(value)>>)>>
    IN
    IF e # "none"
        THEN Call("shiftOut", dataPin, pinOrder, clockPin, e, RNone, <<>>, 0, 0)
    ELSE IF WriteRaises(wok, TRUE)
        THEN Call("shiftOut", dataPin, pinOrder, clockPin, "TransportError", RNone, f, 0, 0)
    ELSE Call("shiftOut", dataPin, pinOrder, clockPin, "none", RNone, f, 1, 0)

shiftOut(dataPin, clockPin, pinOrder, value, wok) ==
    /\ Ready
    /\ last' = WithMore(shiftOutCall(dataPin, clockPin, pinOrder, value, wok), value)
    /\ UNCHANGED pvars
    /\ UNCHANGED cvars

shiftInCall(dataPin, clockPin, pinOrder, wok, raw) ==
    LET o == Upper(pinOrder)
        e == ShiftRejected("shiftIn", dataPin, clockPin, o)
        f == <<build_cmd_str("si", <<dataPin, clockPin, o>>)>>
    IN
    IF e # "none"
        THEN Call("shiftIn", dataPin, pinOrder, clockPin, e, RNone, <<>>, 0, 0)
    ELSE IF RdRaises(raw)
        THEN Call("shiftIn", dataPin, pinOrder, clockPin, "UnicodeDecodeError", RNone,
                  f, Delivered(wok), 1)
    ELSE Call("shiftIn", dataPin, pinOrder, clockPin, "none", DigitsOrNone(rd(raw)),
              f, Delivered(wok), 1)

shiftIn(dataPin, clockPin, pinOrder, wok, raw) ==
    /\ Ready
    /\ last' = WithResp(shiftInCall(dataPin, clockPin, pinOrder, wok, raw), raw)
    /\ UNCHANGED pvars
    /\ UNCHANGED cvars

-----------------------------------------------------------------------------
(* EEPROM (lines 642-693) *)

MaxAddr == 4
Addresses == 0..MaxAddr

\* EEPROM.size: try: write (raise_error=True); rd; int  except: return 0
eepromSizeCall(wok, raw) ==
    LET f == <<build_cmd_str("sz", <<>>)>> IN
    IF WriteRaises(wok, TRUE)
        THEN Call("EEPROM.size", 0, "", 0, "none", RInt(0), f, 0, 0)
    ELSE Call("EEPROM.size", 0, "", 0, "none", IntOrZero(raw), f, 1, 1)

eepromSize(wok, raw) ==
    /\ Ready
    /\ last' = WithResp(eepromSizeCall(wok, raw), raw)
    /\ UNCHANGED pvars
    /\ UNCHANGED cvars

eepromWrite(address, value, wok) ==
    /\ Ready
    /\ last' = WithMore(Call("EEPROM.write", address, "", 0, "none", RNone,
                             <<build_cmd_str("eewr", <<address, ClampByte(value)>>)>>,
                             Delivered(wok), 0), value)
    /\ UNCHANGED pvars
    /\ UNCHANGED cvars

\* EEPROM.read: try: ... if response: return int(response)  except: return 0;
\* with an empty response the function ends without a return statement
IntOrZeroIfAny(raw) ==
    IF RdRaises(raw) THEN RInt(0)
    ELSE IF Len(rd(raw)) = 0 THEN RNone
    ELSE IF IsInt(rd(raw)) THEN RInt(IntVal(rd(raw)))
    ELSE RInt(0)

eepromReadCall(address, wok, raw) ==
    Call("EEPROM.read", address, "", 0, "none", IntOrZeroIfAny(raw),
        <<build_cmd_str("eer", <<address>>)>>, Delivered(wok), 1)

eepromRead(address, wok, raw) ==
    /\ Ready
    /\ last' = WithResp(eepromReadCall(address, wok, raw), raw)
    /\ UNCHANGED pvars
    /\ UNCHANGED cvars

-----------------------------------------------------------------------------
(* The serial line between a reading call and the board (rd, lines 37-44).    *)
(* A reading call writes its frame and blocks in sr.readline(), which returns *)
(* the first line of the input buffer, or an empty line when the timeout ends *)
(* with the buffer empty.  Nothing in the module empties the input buffer:    *)
(* sr.flush() waits for the output only.                                      *)

MaxCalls == 3
ReadingOps == {"analogRead", "EEPROM.read"}

\* the board answers call k with the number k
ReplyLine(k) == <<Digit[k + 1], "\r", "\n">>

\* write_and_flush(self.sr, cmd_str) of a reading call: the board gets the request
\* if the stream takes the frame
streamWrite(op, pin, wok) ==
    /\ Ready
    /\ stream.cur.op = "none"
    /\ stream.n < MaxCalls
    /\ stream' = [stream EXCEPT !.n = @ + 1,
                                !.cur = [op |-> op, pin |-> pin, wok |-> wok],
                                !.sent = IF wok THEN Append(@, stream.n + 1) ELSE @]
    /\ UNCHANGED <<pinModeDic, servo_pos, connected, lastMode, wasConnected, pc, loopPin>>
    /\ UNCHANGED last
    /\ UNCHANGED cvars

\* the board answers the oldest request it holds; the line reaches the input buffer
boardAnswers ==
    /\ cstate = "ready"
    /\ stream.sent # <<>>
    /\ stream' = [stream EXCEPT !.sent = Tail(@), !.inbuf = Append(@, Head(stream.sent))]
    /\ UNCHANGED <<pinModeDic, servo_pos, connected, lastMode, wasConnected, pc, loopPin>>
    /\ UNCHANGED last
    /\ UNCHANGED cvars

\* sr.readline(): the first buffered line, or b'' after the timeout
Readline(inbuf) == IF inbuf = <<>> THEN <<>> ELSE ReplyLine(Head(inbuf))

\* rd(self.sr) returns and the call computes its result from the line
streamRead ==
    /\ Ready
    /\ stream.cur.op # "none"
    /\ LET c == stream.cur
           raw == Readline(stream.inbuf)
       IN
       /\ last' = WithResp(IF c.op = "analogRead"
                           THEN analogReadCall(c.pin, c.wok, raw)
                           ELSE eepromReadCall(c.pin, c.wok, raw), raw)
       /\ stream' = [stream EXCEPT !.cur = NoCur,
                                   !.id = stream.n,
                                   !.got = IF stream.inbuf = <<>> THEN 0 ELSE Head(stream.inbuf),
                                   !.inbuf = IF @ = <<>> THEN @ ELSE Tail(@)]
    /\ UNCHANGED <<pinModeDic, servo_pos, connected, lastMode, wasConnected, pc, loopPin>>
    /\ UNCHANGED cvars

-----------------------------------------------------------------------------
(* Specifications *)

\* a session made by Arduino(sr=sr): the state after construction
Init ==
    /\ pinModeDic = EmptyDict
    /\ servo_pos = EmptyDict
    /\ connected = FALSE
    /\ lastMode = [q \in Pins |-> "unset"]
    /\ wasConnected = FALSE
    /\ stream = QuietStream
    /\ pc = "idle"
    /\ loopPin = 0
    /\ last = NoCall
    /\ cstate = "ready"
    /\ cmode = "given"
    /\ idx = 0
    /\ isOpen = {1}
    /\ opened = <<1>>
    /\ versions = EmptyDict
    /\ warned = {}
    /\ sessionPort = 1
    /\ ports = <<>>
    /\ notices = {}

Next ==
    \/ \E pin \in Pins, val \in DirArgs, wok \in BOOLEAN : pinMode(pin, val, wok)
    \/ \E pin \in Pins, val \in LevelArgs, wok \in BOOLEAN : digitalWrite(pin, val, wok)
    \/ \E pin \in Pins, val \in AnalogVals, wok \in BOOLEAN : analogWrite(pin, val, wok)
    \/ \E pin \in Pins, wok \in BOOLEAN, raw \in RawLines : analogRead(pin, wok, raw)
    \/ \E pin \in Pins, wok \in BOOLEAN, raw \in RawLines : digitalRead(pin, wok, raw)
    \/ \E pin \in Pins, val \in LevelArgs, wok \in BOOLEAN, raw \in RawLines :
           pulseIn(pin, val, wok, raw)
    \/ \E pin \in Pins, val \in LevelArgs : pulseIn_set(pin, val)

Spec == Init /\ [][Next]_vars

\* the peripherals of a session: Servos and SoftwareSerial keep their own state
\* (servo_pos, connected) and neither read nor write pinModeDic
NextPeripherals ==
    \/ \E pin \in Pins : attach(pin)
    \/ \E wok \in BOOLEAN, raw \in RawLines : attachPass(wok, raw)
    \/ \E pin \in Pins, wok \in BOOLEAN : detach(pin, wok)
    \/ \E pin \in Pins, angle \in Angles, wok \in BOOLEAN : servoWrite(pin, angle, wok)
    \/ \E pin \in Pins, uS \in Angles, wok \in BOOLEAN : writeMicroseconds(pin, uS, wok)
    \/ \E pin \in Pins, wok \in BOOLEAN, raw \in RawLines : servoRead(pin, wok, raw)
    \/ \E wok \in BOOLEAN, raw \in RawLines : servoReadRest(wok, raw)
    \/ \E p1 \in Pins, p2 \in Pins, baud \in Bauds, wok \in BOOLEAN, raw \in RawLines :
           begin(p1, p2, baud, wok, raw)
    \/ \E data \in DataBytes, wok \in BOOLEAN, raw \in RawLines : ssWrite(data, wok, raw)
    \/ \E wok \in BOOLEAN, raw \in RawLines : ssRead(wok, raw)

SpecPeripherals == Init /\ [][NextPeripherals]_vars

\* the servo operations alone
NextServos ==
    \/ \E pin \in Pins : attach(pin)
    \/ \E wok \in BOOLEAN, raw \in RawLines : attachPass(wok, raw)
    \/ \E pin \in Pins, wok \in BOOLEAN : detach(pin, wok)
    \/ \E pin \in Pins, angle \in Angles, wok \in BOOLEAN : servoWrite(pin, angle, wok)
    \/ \E pin \in Pins, uS \in Angles, wok \in BOOLEAN : writeMicroseconds(pin, uS, wok)
    \/ \E pin \in Pins, wok \in BOOLEAN, raw \in RawLines : servoRead(pin, wok, raw)
    \/ \E wok \in BOOLEAN, raw \in RawLines : servoReadRest(wok, raw)

SpecServos == Init /\ [][NextServos]_vars

\* one pass of the loop of Servos.attach in which the stream takes the frame and
\* the board's line is not empty
AttachAnswered == \E raw \in RawLines : raw # <<>> /\ attachPass(TRUE, raw)

\* the servo operations against a board that does not stay silent for ever
SpecServosFair == Init /\ [][NextServos]_vars /\ WF_vars(AttachAnswered)

\* the software-serial operations alone
NextSoftwareSerial ==
    \/ \E p1 \in Pins, p2 \in Pins, baud \in Bauds, wok \in BOOLEAN, raw \in RawLines :
           begin(p1, p2, baud, wok, raw)
    \/ \E data \in DataBytes, wok \in BOOLEAN, raw \in RawLines : ssWrite(data, wok, raw)
    \/ \E wok \in BOOLEAN, raw \in RawLines : ssRead(wok, raw)

SpecSoftwareSerial == Init /\ [][NextSoftwareSerial]_vars

NextShift ==
    \/ \E pin \in Pins, val \in DirArgs, wok \in BOOLEAN : pinMode(pin, val, wok)
    \/ \E pin \in Pins, tune \in Tunes, wok1 \in BOOLEAN, wok2 \in BOOLEAN :
           Melody(pin, tune, wok1, wok2)
    \/ \E pin \in Pins, wok \in BOOLEAN, raw \in RawLines : capacitivePin(pin, wok, raw)
    \/ \E dataPin \in Pins, clockPin \in Pins, pinOrder \in Orders, value \in ByteArgs,
          wok \in BOOLEAN : shiftOut(dataPin, clockPin, pinOrder, value, wok)
    \/ \E dataPin \in Pins, clockPin \in Pins, pinOrder \in Orders, wok \in BOOLEAN,
          raw \in RawLines : shiftIn(dataPin, clockPin, pinOrder, wok, raw)

SpecShift == Init /\ [][NextShift]_vars

NextEEPROM ==
    \/ \E wok \in BOOLEAN, raw \in RawLines : eepromSize(wok, raw)
    \/ \E address \in Addresses, value \in ByteArgs, wok \in BOOLEAN :
           eepromWrite(address, value, wok)
    \/ \E address \in Addresses, wok \in BOOLEAN, raw \in RawLines :
           eepromRead(address, wok, raw)

SpecEEPROM == Init /\ [][NextEEPROM]_vars

\* Every operation of a session in one specification.  The board answers a read
\* with silence, a number or the acknowledgement; the literal arguments are the
\* valid ones (the rejected literals are covered by Spec and SpecShift); pinMode
\* and digitalWrite range over Pins, the other operations use the highest pin.
Answers == {<<>>, <<"4", "2", "\r", "\n">>, <<"s", "s", " ", "O", "K", "\r", "\n">>}
Dirs == {"INPUT", "OUTPUT"}
Levels == {"HIGH", "LOW"}

NextAll ==
    \/ \E pin \in Pins, val \in Dirs, wok \in BOOLEAN : pinMode(pin, val, wok)
    \/ \E pin \in Pins, val \in Levels, wok \in BOOLEAN : digitalWrite(pin, val, wok)
    \/ \E wok \in BOOLEAN : analogWrite(MaxPin, 128, wok)
    \/ \E wok \in BOOLEAN, raw \in Answers : analogRead(MaxPin, wok, raw)
    \/ \E wok \in BOOLEAN, raw \in Answers : digitalRead(MaxPin, wok, raw)
    \/ \E wok \in BOOLEAN, raw \in Answers : pulseIn(MaxPin, "HIGH", wok, raw)
    \/ pulseIn_set(MaxPin, "HIGH")
    \/ \E tune \in Tunes, wok1 \in BOOLEAN, wok2 \in BOOLEAN :
           Melody(MaxPin, tune, wok1, wok2)
    \/ \E wok \in BOOLEAN, raw \in Answers : capacitivePin(MaxPin, wok, raw)
    \/ \E wok \in BOOLEAN : shiftOut(MaxPin, MaxPin, "MSBFIRST", 128, wok)
    \/ \E wok \in BOOLEAN, raw \in Answers : shiftIn(MaxPin, MaxPin, "MSBFIRST", wok, raw)
    \/ attach(MaxPin)
    \/ \E wok \in BOOLEAN, raw \in Answers : attachPass(wok, raw)
    \/ \E wok \in BOOLEAN : detach(MaxPin, wok)
    \/ \E wok \in BOOLEAN : servoWrite(MaxPin, 90, wok)
    \/ \E wok \in BOOLEAN : writeMicroseconds(MaxPin, 90, wok)
    \/ \E wok \in BOOLEAN, raw \in Answers : servoRead(MaxPin, wok, raw)
    \/ \E wok \in BOOLEAN, raw \in Answers : servoReadRest(wok, raw)
    \/ \E wok \in BOOLEAN, raw \in Answers : begin(0, MaxPin, 9600, wok, raw)
    \/ \E data \in DataBytes, wok \in BOOLEAN, raw \in Answers : ssWrite(data, wok, raw)
    \/ \E wok \in BOOLEAN, raw \in Answers : ssRead(wok, raw)
    \/ \E wok \in BOOLEAN, raw \in Answers : eepromSize(wok, raw)
    \/ \E address \in Addresses, wok \in BOOLEAN : eepromWrite(address, 128, wok)
    \/ \E address \in Addresses, wok \in BOOLEAN, raw \in Answers :
           eepromRead(address, wok, raw)

SpecAll == Init /\ [][NextAll]_vars

\* reading calls over a line that keeps what was not read
NextStream ==
    \/ \E op \in ReadingOps, pin \in Pins, wok \in BOOLEAN : streamWrite(op, pin, wok)
    \/ boardAnswers
    \/ streamRead

SpecStream == Init /\ [][NextStream]_vars

\* before Arduino(...) is called
InitConnect ==
    /\ pinModeDic = EmptyDict
    /\ servo_pos = EmptyDict
    /\ connected = FALSE
    /\ lastMode = [q \in Pins |-> "unset"]
    /\ wasConnected = FALSE
    /\ stream = QuietStream
    /\ pc = "idle"
    /\ loopPin = 0
    /\ last = NoCall
    /\ cstate = "new"
    /\ cmode = "none"
    /\ idx = 0
    /\ isOpen = {}
    /\ opened = <<>>
    /\ versions = EmptyDict
    /\ warned = {}
    /\ sessionPort = 0
    /\ ports = <<>>
    /\ notices = {}

NextConnect ==
    \/ \E port \in Ports, flushOk \in BOOLEAN : connectGiven(port, flushOk)
    \/ \E port \in Ports, openOk \in BOOLEAN, wok \in BOOLEAN, raw \in VersionLines,
          flushOk \in BOOLEAN : connectExplicit(port, openOk, wok, raw, flushOk)
    \/ \E platform \in Platforms, enumOk \in BOOLEAN : findStart(platform, enumOk)
    \/ findOpenFails
    \/ findOpen
    \/ \E wok \in BOOLEAN, raw \in VersionLines, flushOk \in BOOLEAN : findProbe(wok, raw, flushOk)
    \/ findNone
    \/ close

SpecConnect == InitConnect /\ [][NextConnect]_vars

-----------------------------------------------------------------------------
(* Properties of the pin operations, checked under Spec *)

Abs(n) == IF n < 0 THEN -n ELSE n
Min(a, b) == IF a < b THEN a ELSE b
Max(a, b) == IF a > b THEN a ELSE b
OneFrame(cmd, args) == last.frames = <<[cmd |-> cmd, args |-> args]>>
Failed == last.raised # "none" /\ last.frames = <<>> /\ last.reads = 0

\* C1: digitalWrite on a pin that no pinMode call configured raises and hands no
\* frame to the stream; when the most recent pinMode on the pin set OUTPUT,
\* digitalWrite(p, "HIGH") returns normally after exactly one frame dw(p), and
\* "LOW" after exactly one frame dw(-p); a dw frame is only ever written for a pin
\* whose most recent pinMode set OUTPUT.
C1_DigitalWriteNeedsOutput ==
    /\ (last.op = "digitalWrite" /\ lastMode[last.pin] = "unset") => Failed
    /\ (last.op = "digitalWrite" /\ lastMode[last.pin] = "OUTPUT" /\ last.val = "HIGH") =>
           (last.raised = "none" /\ OneFrame("dw", <<last.pin>>))
    /\ (last.op = "digitalWrite" /\ lastMode[last.pin] = "OUTPUT" /\ last.val \in {"LOW", "low"}) =>
           (last.raised = "none" /\ OneFrame("dw", <<-last.pin>>))
    /\ \A i \in 1..Len(last.frames) :
           last.frames[i].cmd = "dw" => lastMode[Abs(last.frames[i].args[1])] = "OUTPUT"

C1_Witness ==
    /\ last.op = "digitalWrite"
    /\ last.pin = 1
    /\ last.val = "HIGH"
    /\ lastMode[1] = "OUTPUT"
    /\ last.raised = "none"
    /\ OneFrame("dw", <<1>>)

\* the direction an operation needs the most recent pinMode on its pin to have set
NeedsOutput == {"digitalWrite", "analogWrite"}
NeedsInput == {"digitalRead", "pulseIn", "pulseIn_set"}
PinFramesOK(cmds) ==
    \A i \in 1..Len(last.frames) :
        /\ (last.frames[i].cmd \in {"dw", "aw"} \cap cmds) => lastMode[last.pin] = "OUTPUT"
        /\ (last.frames[i].cmd \in {"dr", "pi", "ps"} \cap cmds) => lastMode[last.pin] = "INPUT"
        /\ (last.frames[i].cmd \in {"ar"} \cap cmds) => lastMode[last.pin] # "unset"
Unconfigured(ops) ==
    \/ last.op \in NeedsOutput \cap ops /\ lastMode[last.pin] # "OUTPUT"
    \/ last.op \in NeedsInput \cap ops /\ lastMode[last.pin] # "INPUT"
    \/ last.op \in {"analogRead"} \cap ops /\ lastMode[last.pin] = "unset"

\* C2 as claimed: every dw, aw, ar, dr, pi, ps frame is written for a pin whose
\* most recent pinMode set the direction the operation needs, and an operation
\* called without it (analogRead included) raises and writes nothing.
C2_EveryPinFrameConfigured ==
    /\ PinFramesOK({"dw", "aw", "ar", "dr", "pi", "ps"})
    /\ Unconfigured(NeedsOutput \cup NeedsInput \cup {"analogRead"}) => Failed

\* C2 amended: every dw, aw, dr, pi, ps frame is written for a pin whose most
\* recent pinMode set the direction the operation needs, and digitalWrite,
\* analogWrite, digitalRead, pulseIn and pulseIn_set called without it raise and
\* write nothing; analogRead has no precondition: it writes its ar frame and reads
\* one line whatever the pin's configuration.
C2_PinFramesConfiguredExceptAnalogRead ==
    /\ PinFramesOK({"dw", "aw", "dr", "pi", "ps"})
    /\ Unconfigured(NeedsOutput \cup NeedsInput) => Failed
    /\ last.op = "analogRead" =>
           (last.raised = "none" /\ OneFrame("ar", <<last.pin>>) /\ last.reads = 1)

C2_Witness ==
    /\ last.op = "digitalRead"
    /\ lastMode[last.pin] = "INPUT"
    /\ OneFrame("dr", <<last.pin>>)
    /\ last.reads = 1

\* C3: pinMode(p, dir) with dir one of INPUT, OUTPUT, INPUT_PULLUP (in any case)
\* returns normally, records dir for p, writes exactly one pm frame whose argument
\* is -16384 - p, -p or p, and leaves the entry of every other pin as it was.
C3_PinModeRecordsAndEncodes ==
    [][ (last'.op = "pinMode" /\ Upper(last'.val) \in {"INPUT", "OUTPUT", "INPUT_PULLUP"}) =>
          /\ last'.raised = "none"
          /\ last'.pin \in DOMAIN pinModeDic'
          /\ pinModeDic'[last'.pin] = Upper(last'.val)
          /\ Len(last'.frames) = 1
          /\ last'.frames[1].cmd = "pm"
          /\ last'.frames[1].args =
                 <<CASE Upper(last'.val) = "INPUT_PULLUP" -> (-16384) - last'.pin
                     [] Upper(last'.val) = "INPUT" -> -last'.pin
                     [] Upper(last'.val) = "OUTPUT" -> last'.pin>>
          /\ \A q \in Pins \ {last'.pin} :
                 /\ (q \in DOMAIN pinModeDic') = (q \in DOMAIN pinModeDic)
                 /\ q \in DOMAIN pinModeDic => pinModeDic'[q] = pinModeDic[q]
      ]_vars

C3_Witness ==
    /\ last.op = "pinMode"
    /\ last.pin = 1
    /\ last.val = "INPUT_PULLUP"
    /\ pinModeDic = (0 :> "OUTPUT" @@ 1 :> "INPUT_PULLUP")
    /\ OneFrame("pm", <<-16385>>)

\* C4: analogWrite(p, v) on a pin whose most recent pinMode set OUTPUT returns
\* normally after exactly one frame aw(p, min(255, max(0, v))).
C4_AnalogWriteClamps ==
    (last.op = "analogWrite" /\ lastMode[last.pin] = "OUTPUT") =>
        /\ last.raised = "none"
        /\ OneFrame("aw", <<last.pin, Min(255, Max(0, last.num))>>)

C4_Witness ==
    /\ last.op = "analogWrite"
    /\ last.num = 300
    /\ lastMode[last.pin] = "OUTPUT"
    /\ OneFrame("aw", <<last.pin, 255>>)

\* a line with no digit in it (a read that timed out included) is no number
NoDigitIn(raw) == \A i \in 1..Len(raw) : ~IsDigit(raw[i])

\* C5: when the line read is empty or holds no number, analogRead returns 0 and
\* pulseIn (level HIGH or LOW, pin set to INPUT) returns -1; neither raises and
\* neither changes the session's state.
C5_ReadFallbacks ==
    [][ /\ (last'.op = "analogRead" /\ NoDigitIn(last'.resp)) =>
              /\ last'.raised = "none"
              /\ last'.ret.t = "int" /\ last'.ret.v = 0
              /\ UNCHANGED <<pinModeDic, servo_pos, connected>>
        /\ (/\ last'.op = "pulseIn"
            /\ lastMode[last'.pin] = "INPUT"
            /\ Upper(last'.val) \in {"HIGH", "LOW"}
            /\ NoDigitIn(last'.resp)) =>
              /\ last'.raised = "none"
              /\ last'.reads = 1
              /\ last'.ret.t = "int" /\ last'.ret.v = -1
              /\ UNCHANGED <<pinModeDic, servo_pos, connected>>
      ]_vars

C5_Witness ==
    /\ last.op = "pulseIn"
    /\ lastMode[last.pin] = "INPUT"
    /\ last.reads = 1
    /\ last.resp = <<>>
    /\ last.raised = "none"
    /\ last.ret.t = "int" /\ last.ret.v = -1

-----------------------------------------------------------------------------
(* Properties of Servos and SoftwareSerial, checked under SpecPeripherals *)

\* C6 as claimed: attach(p) binds p to the handle the device returned; write(p,
\* angle) on a bound pin returns normally after exactly one frame svw(handle,
\* angle); detach(p) writes svd(handle) and removes the binding; write on a pin
\* that is not bound raises and writes nothing.
C6_ServoLifecycle ==
    /\ (last.op = "attach" /\ pc = "idle" /\ last.raised = "none") =>
           (last.pin \in DOMAIN servo_pos /\ last.frames[1].cmd = "sva")
    /\ (last.op = "Servos.write" /\ last.pin \in DOMAIN servo_pos) =>
           (last.raised = "none" /\ OneFrame("svw", <<servo_pos[last.pin], last.num>>))
    /\ (last.op = "Servos.write" /\ last.pin \notin DOMAIN servo_pos) => Failed
    /\ (last.op = "detach" /\ last.raised = "none") =>
           (last.pin \notin DOMAIN servo_pos /\ Len(last.frames) = 1 /\ last.frames[1].cmd = "svd")

CRLF == <<"\r", "\n">>

\* C10: connected starts false; it turns true only in a begin whose line, without
\* its CR LF, is exactly "ss OK"; while it is false SoftwareSerial.write and
\* SoftwareSerial.read write no frame, read no line and return False.
C10_SoftwareSerialGate ==
    /\ ~connected
    /\ [][ /\ (connected' /\ ~connected) =>
                 /\ last'.op = "begin"
                 /\ last'.resp \in {ssOK, ssOK \o CRLF}
                 /\ last'.ret.t = "bool" /\ last'.ret.v = 1
           /\ (~connected /\ last'.op \in {"SoftwareSerial.write", "SoftwareSerial.read"}) =>
                 /\ last'.frames = <<>>
                 /\ last'.reads = 0
                 /\ last'.raised = "none"
                 /\ last'.ret.t = "bool" /\ last'.ret.v = 0
                 /\ ~connected'
       ]_vars

C10_Witness ==
    /\ connected
    /\ last.op = "begin"
    /\ last.resp = ssOK \o CRLF
    /\ OneFrame("ss", <<0, 1, 9600>>)

-----------------------------------------------------------------------------
(* Properties of connecting, checked under SpecConnect *)

NoResponse(version) == version.none \/ version.s = <<>>
Differs(version) == version.none \/ version.s # <<"V", "0", ".", "6">>
\* the answer starts with V or is the word version
LooksOld(version) ==
    /\ ~version.none
    /\ Len(version.s) > 0
    /\ (version.s[1] = "V" \/ version.s = <<"v", "e", "r", "s", "i", "o", "n">>)
Takes(version) == ~Differs(version) \/ LooksOld(version)

Pos(port) == CHOOSE k \in 1..Len(ports) : ports[k] = port

-----------------------------------------------------------------------------
(* SoftwareSerial: what unsets connected (lines 598-611) *)

\* C11 (as stated): once connected is true no step of the session makes it false,
\* a later begin that is not acknowledged included.
C11_ConnectedNeverUnset == [][connected => connected']_vars

\* C11 (amended): connected goes from true to false only in a begin that returned
\* False because its line was not "ss OK", and every begin that completes without
\* the acknowledgement leaves connected false; no other call of the session unsets it.
C11_OnlyUnackedBeginUnsets ==
    [][ /\ (connected /\ ~connected') =>
              /\ last'.op = "begin"
              /\ last'.raised = "none"
              /\ last'.resp \notin {ssOK, ssOK \o CRLF}
              /\ last'.ret.t = "bool" /\ last'.ret.v = 0
        /\ (last'.op = "begin" /\ last'.raised = "none"
               /\ last'.resp \notin {ssOK, ssOK \o CRLF}) => ~connected'
      ]_vars

C11_Witness ==
    /\ wasConnected
    /\ ~connected
    /\ last.op = "begin"
    /\ last.raised = "none"
    /\ last.ret.t = "bool" /\ last.ret.v = 0

-----------------------------------------------------------------------------
(* Frames and line reads per call *)

Cmds(frames) == [i \in 1..Len(frames) |-> frames[i].cmd]

-----------------------------------------------------------------------------
(* EEPROM *)

\* C13: EEPROM.write sends one 'eewr' frame whose value is clamped to 0..255;
\* EEPROM.read and EEPROM.size never raise and always return an integer, which is
\* 0 whenever the write failed or the response holds no number.
C13_EEPROMContract ==
    /\ last.op = "EEPROM.write" =>
          OneFrame("eewr", <<last.pin, Min(255, Max(0, last.more))>>)
    /\ last.op \in {"EEPROM.read", "EEPROM.size"} =>
          /\ last.raised = "none"
          /\ last.ret.t = "int"
          /\ (last.delivered = 0 \/ NoDigitIn(last.resp)) => last.ret.v = 0

-----------------------------------------------------------------------------
(* Swallowed write failures and the host's tables *)

\* C14: a call whose frame the stream did not take leaves the host's tables as
\* they were: pinMode records no direction whose 'pm' frame was not delivered, and
\* detach drops no binding whose 'svd' frame was not delivered.
C14_FailedWriteKeepsTables ==
    [][ /\ (last'.op = "pinMode" /\ last'.delivered = 0) => pinModeDic' = pinModeDic
        /\ (last'.op = "detach" /\ last'.delivered = 0) => servo_pos' = servo_pos
      ]_vars

-----------------------------------------------------------------------------
(* digitalRead and pulseIn: the direction test *)

TrackedInput(dic, pin) == pin \in DOMAIN dic /\ dic[pin] = "INPUT"

\* C15: digitalRead and pulseIn write their 'dr' / 'pi' frame only when the pin is
\* recorded as exactly INPUT; on a pin that is unset, OUTPUT or INPUT_PULLUP the
\* call raises (KeyError, ValueError) with no frame written and no line read; in
\* either case the recorded directions are left as they were.
C15_ReadsNeedExactInput ==
    [][ last'.op \in {"digitalRead", "pulseIn"} =>
          /\ pinModeDic' = pinModeDic
          /\ last'.frames # <<>> =>
                /\ TrackedInput(pinModeDic, last'.pin)
                /\ Len(last'.frames) = 1
                /\ last'.frames[1].cmd = (IF last'.op = "digitalRead" THEN "dr" ELSE "pi")
          /\ (last'.op = "digitalRead" /\ TrackedInput(pinModeDic, last'.pin)) =>
                last'.frames = <<[cmd |-> "dr", args |-> <<last'.pin>>]>>
          /\ ~TrackedInput(pinModeDic, last'.pin) =>
                /\ last'.raised \in {"KeyError", "ValueError"}
                /\ last'.frames = <<>>
                /\ last'.reads = 0
      ]_vars

C15_Witness ==
    /\ last.op \in {"digitalRead", "pulseIn"}
    /\ last.pin \in DOMAIN pinModeDic
    /\ pinModeDic[last.pin] = "INPUT_PULLUP"
    /\ last.raised = "ValueError"
    /\ last.frames = <<>>

-----------------------------------------------------------------------------
(* shiftOut and shiftIn *)

TrackedOutput(dic, pin) == pin \in DOMAIN dic /\ dic[pin] = "OUTPUT"

\* the call record of a shift operation: pin is dataPin, num is clockPin, val is
\* pinOrder, more is the value
ShiftAccepted ==
    /\ TrackedOutput(pinModeDic, last.pin)
    /\ TrackedOutput(pinModeDic, last.num)
    /\ Upper(last.val) \in {"MSBFIRST", "LSBFIRST"}

\* C16: shiftOut and shiftIn write their 'so' / 'si' frame only when dataPin and
\* clockPin are both recorded as OUTPUT and the order, in any case, is MSBFIRST or
\* LSBFIRST; otherwise the call raises an error about the pin (KeyError,
\* ValueError) or the order (ValueError) and writes nothing.  The value in the
\* 'so' frame is the argument clamped to 0..255.
C16_ShiftNeedsOutputsAndOrder ==
    last.op \in {"shiftOut", "shiftIn"} =>
        /\ last.frames # <<>> =>
              /\ ShiftAccepted
              /\ Len(last.frames) = 1
              /\ last.frames[1].cmd = (IF last.op = "shiftOut" THEN "so" ELSE "si")
        /\ ~ShiftAccepted =>
              /\ last.raised \in {"KeyError", "ValueError"}
              /\ last.frames = <<>>
              /\ last.reads = 0
        /\ (last.op = "shiftOut" /\ last.frames # <<>>) =>
              last.frames[1].args[4] = Min(255, Max(0, last.more))

-----------------------------------------------------------------------------
(* Servos on a pin that is not attached *)

ServoOps == {"Servos.write", "writeMicroseconds", "detach"}

\* C17: Servos.read on a pin that is not attached starts attach for that pin before
\* it writes anything; it writes its 'svr' frame only after the 'sva' frames and
\* an answer, with the handle attach bound, and the pin stays attached.  write,
\* writeMicroseconds and detach on a pin that is not attached raise, write no frame
\* and leave servo_pos as it was.
C17_ReadAttachesOthersFail ==
    [][ /\ (last'.op \in ServoOps /\ last'.pin \notin DOMAIN servo_pos) =>
              /\ last'.raised # "none"
              /\ last'.frames = <<>>
              /\ servo_pos' = servo_pos
        /\ (last'.op = "Servos.read" /\ pc = "idle" /\ last'.pin \notin DOMAIN servo_pos) =>
              /\ pc' = "attach"
              /\ loopPin' = last'.pin
              /\ last'.frames = <<>>
        /\ (last'.op = "Servos.read" /\ pc = "svr" /\ pc' = "idle") =>
              /\ Len(last.frames) >= 1
              /\ \A i \in 1..Len(last.frames) : last.frames[i].cmd = "sva"
              /\ last.reads >= 1
              /\ last.resp # <<>>
              /\ last'.pin \in DOMAIN servo_pos
              /\ servo_pos' = servo_pos
              /\ last'.frames = Append(last.frames,
                                       [cmd |-> "svr", args |-> <<servo_pos[last'.pin]>>])
      ]_vars

C17_Witness ==
    /\ last.op = "Servos.read"
    /\ pc = "idle"
    /\ last.raised = "none"
    /\ Cmds(last.frames) = <<"sva", "svr">>
    /\ last.pin \in DOMAIN servo_pos

-----------------------------------------------------------------------------
(* Auto-discovery: which candidate streams are open *)

\* C18: in auto-discovery at most one candidate is open at any time, and it is
\* the one under test; a rejected candidate is closed before the next is opened;
\* when find_port has returned a stream, that port is the only one open, and when
\* discovery has failed (no candidate taken, or an error while probing) none is.
C18_OneCandidateOpen ==
    cmode = "auto" =>
        /\ Cardinality(isOpen) <= 1
        /\ cstate = "probing" => \A p \in isOpen : idx <= Len(ports) /\ p = ports[idx]
        /\ cstate = "ready" => isOpen \subseteq {sessionPort}
        /\ (cstate = "failed" /\ last.raised # "TransportError") => isOpen = {}

-----------------------------------------------------------------------------
(* Invalid literals *)

\* C19: pinMode with a direction that is none of INPUT, OUTPUT, INPUT_PULLUP
\* raises ValueError, writes no frame and leaves the recorded direction of every
\* pin as it was; digitalWrite on a pin recorded as OUTPUT with a level that is
\* neither HIGH nor LOW raises ValueError and writes no frame.  (Both compare the
\* upper-cased argument.)
C19_InvalidLiteralRejected ==
    [][ /\ (last'.op = "pinMode"
               /\ Upper(last'.val) \notin {"INPUT", "OUTPUT", "INPUT_PULLUP"}) =>
              /\ last'.raised = "ValueError"
              /\ last'.frames = <<>>
              /\ last'.delivered = 0
              /\ pinModeDic' = pinModeDic
        /\ (last'.op = "digitalWrite"
               /\ TrackedOutput(pinModeDic, last'.pin)
               /\ Upper(last'.val) \notin {"HIGH", "LOW"}) =>
              /\ last'.raised = "ValueError"
              /\ last'.frames = <<>>
              /\ last'.delivered = 0
              /\ pinModeDic' = pinModeDic
      ]_vars

C19_Witness ==
    /\ last.op = "pinMode"
    /\ last.val = "toggle"
    /\ last.raised = "ValueError"
    /\ last.frames = <<>>
    /\ last.pin \in DOMAIN pinModeDic
    /\ pinModeDic[last.pin] = "OUTPUT"

-----------------------------------------------------------------------------
(* The sign encoding *)

\* C20: the argument of a 'dw' frame determines the level and the argument of a
\* 'pm' frame determines the direction, for every pin, pin 0 included: no other
\* level (direction) of the same pin is encoded by the argument that was sent.
C20_SignEncodingKeepsState ==
    /\ (last.op = "digitalWrite" /\ last.frames # <<>>) =>
          \A w \in {"HIGH", "LOW"} :
              LevelArg(last.pin, w) = last.frames[1].args[1] => w = Upper(last.val)
    /\ (last.op = "pinMode" /\ last.frames # <<>>) =>
          \A w \in {"INPUT", "OUTPUT", "INPUT_PULLUP"} :
              PinModeArg(last.pin, w) = last.frames[1].args[1] => w = Upper(last.val)

-----------------------------------------------------------------------------
(* Servos.attach: the retry loop *)

\* C21: each pass of the loop of Servos.attach writes an 'sva' frame; the loop is
\* left only by a write that raises, which leaves servo_pos as it was, or after a
\* line that is not empty; on an empty line it goes round again without touching
\* servo_pos, so a board that never answers keeps it there with no binding made;
\* servo_pos changes only in a pass that read a non-empty line and did not raise.
\* Against a board that eventually answers, the loop is eventually left.
C21_AttachRetriesUntilAnswered ==
    /\ [][ pc = "attach" =>
             /\ Len(last'.frames) >= 1
             /\ last'.frames[Len(last'.frames)].cmd = "sva"
             /\ pc' = "attach" =>
                   /\ last'.resp = <<>>
                   /\ last'.raised = "none"
                   /\ servo_pos' = servo_pos
             /\ pc' # "attach" =>
                   \/ last'.raised = "TransportError" /\ servo_pos' = servo_pos
                   \/ last'.raised # "TransportError" /\ last'.resp # <<>>
             /\ servo_pos' # servo_pos =>
                   /\ last'.resp # <<>>
                   /\ last'.raised = "none"
                   /\ loopPin \in DOMAIN servo_pos'
         ]_vars
    /\ (pc = "attach" ~> pc # "attach")

C21_Witness ==
    /\ last.op = "attach"
    /\ pc = "idle"
    /\ last.raised = "none"
    /\ Len(last.frames) >= 2
    /\ last.reads >= 2
    /\ last.pin \in DOMAIN servo_pos

-----------------------------------------------------------------------------
(* Request / response alignment *)

\* C22: the line a reading call consumes is the reply to the frame that same call
\* wrote: a call that returned either timed out with no line, or consumed the line
\* that answers its own number, and its result is then its own reply.
C22_ReplyBelongsToCall ==
    /\ stream.got \in {0, stream.id}
    /\ (stream.cur.op = "none" /\ last.op \in ReadingOps /\ last.resp # <<>>) =>
          last.ret.v = stream.id

====
